---- MODULE Spec2Model ----
(***************************************************************************)
(* Model of the bar bookkeeping application (src/app.py): the two tables   *)
(* daily_sales and expenses, the session flag, and one action per route.   *)
(*                                                                         *)
(* Representation of the inputs.  A text field that the code parses is     *)
(* held as the list of pieces the parser works on: a date string           *)
(* "Y-M-D" and a month token "Y-M" are the sequences of their              *)
(* '-'-separated fields, and a field or an amount is a record              *)
(* [num, v]: num says whether int()/float() accepts the text and v is the  *)
(* number it yields.  Amounts are whole numbers.  A description is the     *)
(* sequence of its characters.                                             *)
(*                                                                         *)
(* A route is one action, the whole handler from the decorator to the      *)
(* response.  POST /sales is also given in two steps, the handler up to    *)
(* its lookup and the handler from there to its commit, run by two         *)
(* workers with a database session each: inflight holds, for each worker,  *)
(* the handler it is in the middle of.                                     *)
(***************************************************************************)
EXTENDS Integers, Sequences, FiniteSets, TLC

VARIABLES sales, expenses, session, req, resp, today, DATA_DIR_env, fs_other,
          inflight

vars == <<sales, expenses, session, req, resp, today, DATA_DIR_env, fs_other,
          inflight>>

(***************************************************************************)
(* Bounds of the model.                                                    *)
(***************************************************************************)
MaxSales == 2
MaxExpenses == 2
MaxId == 2

(***************************************************************************)
(* Parsed text.                                                            *)
(***************************************************************************)
N(v) == [num |-> TRUE, v |-> v]
X == [num |-> FALSE, v |-> 0]

\* calendar.isleap, as used by monthrange
isleap(y) == (y % 4 = 0) /\ ((y % 100 # 0) \/ (y % 400 = 0))

\* monthrange(y, m)[1]: the number of days of month m of year y
monthrange_days(y, m) ==
    IF m = 2 THEN (IF isleap(y) THEN 29 ELSE 28)
    ELSE IF m \in {4, 6, 9, 11} THEN 30 ELSE 31

\* datetime.date(y, m, d) raises ValueError outside these ranges
date_ok(y, m, d) ==
    /\ y >= 1 /\ y <= 9999
    /\ m >= 1 /\ m <= 12
    /\ d >= 1 /\ d <= monthrange_days(y, m)

\* parse_date(value) returns a date, or raises
parse_date_ok(value) ==
    /\ Len(value) = 3
    /\ \A i \in 1..3 : value[i].num
    /\ date_ok(value[1].v, value[2].v, value[3].v)

parse_date(value) == <<value[1].v, value[2].v, value[3].v>>

\* float(text) returns a number, or raises
float_ok(f) == f.num
float(f) == f.v

\* d1 <= d2 on dates <<y, m, d>>
date_le(d1, d2) ==
    \/ d1[1] < d2[1]
    \/ d1[1] = d2[1] /\ d1[2] < d2[2]
    \/ d1[1] = d2[1] /\ d1[2] = d2[2] /\ d1[3] <= d2[3]

\* column.between(start, end): inclusive at both ends
between(d, start, end) == date_le(start, d) /\ date_le(d, end)

\* month_bounds(yyyy_mm): split on '-', int() each field, build the two dates
month_bounds_ok(yyyy_mm) ==
    /\ Len(yyyy_mm) = 2
    /\ yyyy_mm[1].num /\ yyyy_mm[2].num
    /\ date_ok(yyyy_mm[1].v, yyyy_mm[2].v, 1)

month_bounds(yyyy_mm) ==
    LET y == yyyy_mm[1].v
        m == yyyy_mm[2].v
    IN  [start |-> <<y, m, 1>>, end |-> <<y, m, monthrange_days(y, m)>>]

\* date.today().strftime("%Y-%m")
strftime_Y_m(d) == <<N(d[1]), N(d[2])>>

\* str.strip() on a sequence of characters
RECURSIVE lstrip(_)
lstrip(s) == IF s # <<>> /\ Head(s) = " " THEN lstrip(Tail(s)) ELSE s

RECURSIVE rstrip(_)
rstrip(s) ==
    IF s # <<>> /\ s[Len(s)] = " " THEN rstrip(SubSeq(s, 1, Len(s) - 1)) ELSE s

strip(s) == rstrip(lstrip(s))

(***************************************************************************)
(* The tables.                                                             *)
(***************************************************************************)
SetMax(S) == CHOOSE x \in S : \A y \in S : y <= x

ids_of(T) == {r.id : r \in T}

\* INTEGER PRIMARY KEY without AUTOINCREMENT: one more than the largest id
next_id(T) == IF T = {} THEN 1 ELSE SetMax({r.id : r \in T}) + 1

\* the comparison on the sale_date column used by the queries and the index
same_date_never(r, d) == FALSE

same_date(r, d) == r.sale_date = d

\* the column is declared without unique=True
unique_sale_date_off(S) == TRUE

\* UNIQUE index on daily_sales.sale_date, checked when the session flushes
unique_sale_date(S) ==
    \A r1 \in S : \A r2 \in S : same_date(r1, r2.sale_date) => r1.id = r2.id

\* DailySale.query.filter_by(sale_date=d).first()
existing_sale(S, d) == {r \in S : same_date(r, d)}

\* the row being edited is not left out of the search
other_sale_any(S, d, sale_id) == {r \in S : same_date(r, d)}

\* DailySale.query.filter(sale_date == d, id != sale_id).first()
other_sale(S, d, sale_id) == {r \in S : same_date(r, d) /\ r.id # sale_id}

\* the primary key is compared with >= instead of =
get_row_from(T, id) == {r \in T : r.id >= id}

\* Model.query.get_or_404(id): the rows with that primary key
get_row(T, id) == {r \in T : r.id = id}

(***************************************************************************)
(* Responses.  flash is the list of messages the request flashed, each     *)
(* <<category, message, detail>>.                                          *)
(***************************************************************************)
NoBody == [kind |-> "none"]

redirect(location, flashes) ==
    [status |-> 302, location |-> location, flash |-> flashes, body |-> NoBody]

render_template(template, flashes, body) ==
    [status |-> 200, location |-> template, flash |-> flashes, body |-> body]

abort(code) ==
    [status |-> code, location |-> "", flash |-> <<>>, body |-> NoBody]

\* the decorator lets the request through to the view
login_required_open == TRUE

login_required_simple == session.is_admin

\* what the decorator answers otherwise: the view is not called
to_login ==
    /\ resp' = redirect("login", <<>>)
    /\ UNCHANGED <<sales, expenses, session>>

ADMIN_USERNAME == <<"a">>
ADMIN_PASSWORD == <<"p">>

(***************************************************************************)
(* Sales.                                                                  *)
(***************************************************************************)
\* zero is refused along with the negative amounts
sale_form_error_strict(form) ==
    IF ~parse_date_ok(form.sale_date) THEN "invalid date"
    ELSE IF ~float_ok(form.total_sales) \/ ~float_ok(form.daily_profit)
         THEN "invalid number"
    ELSE IF float(form.total_sales) <= 0 \/ float(form.daily_profit) <= 0
         THEN "Values must be non-negative."
    ELSE ""

\* the first exception raised by the parsing and validation of a sale form
sale_form_error(form) ==
    IF ~parse_date_ok(form.sale_date) THEN "invalid date"
    ELSE IF ~float_ok(form.total_sales) \/ ~float_ok(form.daily_profit)
         THEN "invalid number"
    ELSE IF float(form.total_sales) < 0 \/ float(form.daily_profit) < 0
         THEN "Values must be non-negative."
    ELSE ""

\* the lookup by date is skipped: every accepted form is an insert
sales_post_insert_only(S, form) ==
    LET err == sale_form_error(form)
        staged == S \cup {[id |-> next_id(S), sale_date |-> parse_date(form.sale_date),
                           total_sales |-> float(form.total_sales),
                           daily_profit |-> float(form.daily_profit)]}
        said == <<"success", "Added sale", "">>
    IN  IF err # ""
        THEN [sales |-> S, flash |-> <<<<"error", "Could not save sale", err>>>>]
        ELSE IF ~unique_sale_date(staged)
        THEN [sales |-> S,
              flash |-> <<said, <<"error", "Could not save sale", "IntegrityError">>>>]
        ELSE [sales |-> staged, flash |-> <<said>>]

\* POST /sales: the try block, its commit and its rollback
sales_post(S, form) ==
    LET err == sale_form_error(form)
        d == parse_date(form.sale_date)
        ts == float(form.total_sales)
        dp == float(form.daily_profit)
        existing == existing_sale(S, d)
        first == CHOOSE r \in existing : \A q \in existing : r.id <= q.id
        staged ==
            IF existing # {}
            THEN (S \ {first}) \cup
                 {[first EXCEPT !.total_sales = ts, !.daily_profit = dp]}
            ELSE S \cup {[id |-> next_id(S), sale_date |-> d,
                          total_sales |-> ts, daily_profit |-> dp]}
        said == IF existing # {} THEN <<"info", "Updated sale", "">>
                ELSE <<"success", "Added sale", "">>
    IN  IF err # ""
        THEN [sales |-> S, flash |-> <<<<"error", "Could not save sale", err>>>>]
        ELSE IF ~unique_sale_date(staged)
        THEN [sales |-> S,
              flash |-> <<said, <<"error", "Could not save sale", "IntegrityError">>>>]
        ELSE [sales |-> staged, flash |-> <<said>>]

\* POST /sales/<id>/edit: the try block, its commit and its rollback
edit_sale_post(S, sale, form) ==
    LET err == sale_form_error(form)
        d == parse_date(form.sale_date)
        ts == float(form.total_sales)
        dp == float(form.daily_profit)
        staged == (S \ {sale}) \cup
                  {[id |-> sale.id, sale_date |-> d,
                    total_sales |-> ts, daily_profit |-> dp]}
        failed(e) == [ok |-> FALSE, sales |-> S,
                      flash |-> <<<<"error", "Could not update sale", e>>>>]
    IN  IF err # "" THEN failed(err)
        ELSE IF other_sale(S, d, sale.id) # {}
        THEN failed("Another sale entry already exists for that date.")
        ELSE IF ~unique_sale_date(staged) THEN failed("IntegrityError")
        ELSE [ok |-> TRUE, sales |-> staged,
              flash |-> <<<<"success", "Sale updated.", "">>>>]

\* ORDER BY sale_date ASC
RECURSIVE sales_by_date_asc(_)
sales_by_date_asc(S) ==
    IF S = {} THEN <<>>
    ELSE LET r == CHOOSE x \in S : \A q \in S :
                     /\ date_le(x.sale_date, q.sale_date)
                     /\ (x.sale_date = q.sale_date => x.id <= q.id)
         IN  <<r>> \o sales_by_date_asc(S \ {r})

RECURSIVE reversed(_)
reversed(s) == IF s = <<>> THEN <<>> ELSE Append(reversed(Tail(s)), Head(s))

limit(s, n) == SubSeq(s, 1, IF Len(s) < n THEN Len(s) ELSE n)

SALES_LIMIT == 90
EXPENSES_LIMIT == 150

(***************************************************************************)
(* Expenses.                                                               *)
(***************************************************************************)
\* the first exception raised by the parsing and validation of an expense form
expense_form_error(form) ==
    IF ~parse_date_ok(form.expense_date) THEN "invalid date"
    ELSE IF ~float_ok(form.amount) THEN "invalid number"
    ELSE IF strip(form.description) = <<>> THEN "Description is required."
    ELSE IF float(form.amount) < 0 THEN "Amount must be non-negative."
    ELSE ""

\* an expense of a date that has one already replaces it, as a sale would
expenses_post_upsert(E, form) ==
    LET err == expense_form_error(form)
        d == parse_date(form.expense_date)
        kept == {r \in E : r.expense_date # d}
    IN  IF err # ""
        THEN [expenses |-> E,
              flash |-> <<<<"error", "Could not save expense", err>>>>]
        ELSE [expenses |-> kept \cup
                  {[id |-> next_id(E), expense_date |-> d,
                    description |-> strip(form.description),
                    amount |-> float(form.amount)]},
              flash |-> <<<<"success", "Added expense.", "">>>>]

\* POST /expenses: the try block, its commit and its rollback
expenses_post(E, form) ==
    LET err == expense_form_error(form)
    IN  IF err # ""
        THEN [expenses |-> E,
              flash |-> <<<<"error", "Could not save expense", err>>>>]
        ELSE [expenses |-> E \cup
                  {[id |-> next_id(E),
                    expense_date |-> parse_date(form.expense_date),
                    description |-> strip(form.description),
                    amount |-> float(form.amount)]},
              flash |-> <<<<"success", "Added expense.", "">>>>]

\* POST /expenses/<id>/edit: the try block, its commit and its rollback
edit_expense_post(E, exp, form) ==
    LET err == expense_form_error(form)
    IN  IF err # ""
        THEN [ok |-> FALSE, expenses |-> E,
              flash |-> <<<<"error", "Could not update expense", err>>>>]
        ELSE [ok |-> TRUE,
              expenses |-> (E \ {exp}) \cup
                  {[id |-> exp.id,
                    expense_date |-> parse_date(form.expense_date),
                    description |-> strip(form.description),
                    amount |-> float(form.amount)]},
              flash |-> <<<<"success", "Expense updated.", "">>>>]

\* ORDER BY expense_date ASC, id ASC
RECURSIVE expenses_by_date_asc(_)
expenses_by_date_asc(E) ==
    IF E = {} THEN <<>>
    ELSE LET r == CHOOSE x \in E : \A q \in E :
                     /\ date_le(x.expense_date, q.expense_date)
                     /\ (x.expense_date = q.expense_date => x.id <= q.id)
         IN  <<r>> \o expenses_by_date_asc(E \ {r})

(***************************************************************************)
(* Requests.                                                               *)
(***************************************************************************)
NoForm == [kind |-> "none"]

request(route, method, id, form) ==
    [route |-> route, method |-> method, id |-> id, form |-> form]

\* what no route touches: the clock and the deployment; a handler that runs
\* in one step leaves the handlers in flight where they are
frame == UNCHANGED <<today, DATA_DIR_env, fs_other, inflight>>

(***************************************************************************)
(* Auth routes.                                                            *)
(***************************************************************************)
login_GET ==
    /\ req' = request("login", "GET", 0, NoForm)
    /\ resp' = IF session.is_admin THEN redirect("summary", <<>>)
               ELSE render_template("login.html", <<>>, NoBody)
    /\ UNCHANGED <<sales, expenses, session>>
    /\ frame

login_POST(username, password, next) ==
    /\ req' = request("login", "POST", 0,
                      [username |-> username, password |-> password, next |-> next])
    /\ IF session.is_admin
       THEN /\ resp' = redirect("summary", <<>>)
            /\ UNCHANGED session
       ELSE IF strip(username) = ADMIN_USERNAME /\ password = ADMIN_PASSWORD
       THEN /\ session' = [session EXCEPT !.is_admin = TRUE]
            /\ resp' = redirect(IF next # "" THEN next ELSE "summary",
                                <<<<"success", "Logged in successfully.", "">>>>)
       ELSE /\ resp' = render_template("login.html",
                   <<<<"error", "Invalid username or password.", "">>>>, NoBody)
            /\ UNCHANGED session
    /\ UNCHANGED <<sales, expenses>>
    /\ frame

logout ==
    /\ req' = request("logout", "GET", 0, NoForm)
    /\ session' = [is_admin |-> FALSE]
    /\ resp' = redirect("login", <<<<"info", "Logged out.", "">>>>)
    /\ UNCHANGED <<sales, expenses>>
    /\ frame

home ==
    /\ req' = request("home", "GET", 0, NoForm)
    /\ IF ~login_required_simple THEN to_login
       ELSE /\ resp' = redirect("summary", <<>>)
            /\ UNCHANGED <<sales, expenses, session>>
    /\ frame

(***************************************************************************)
(* Sales routes.                                                           *)
(***************************************************************************)
sales_GET ==
    /\ req' = request("sales", "GET", 0, NoForm)
    /\ IF ~login_required_simple THEN to_login
       ELSE /\ resp' = render_template("sales.html", <<>>,
                   [kind |-> "rows",
                    rows |-> limit(reversed(sales_by_date_asc(sales)), SALES_LIMIT)])
            /\ UNCHANGED <<sales, expenses, session>>
    /\ frame

sales_POST(form) ==
    /\ req' = request("sales", "POST", 0, form)
    /\ IF ~login_required_simple THEN to_login
       ELSE LET r == sales_post(sales, form)
            IN  /\ Cardinality(r.sales) <= MaxSales
                /\ ids_of(r.sales) \subseteq 1..MaxId
                /\ sales' = r.sales
                /\ resp' = redirect("sales", r.flash)
                /\ UNCHANGED <<expenses, session>>
    /\ frame

edit_sale_GET(sale_id) ==
    /\ req' = request("edit_sale", "GET", sale_id, NoForm)
    /\ IF ~login_required_simple THEN to_login
       ELSE /\ resp' = IF get_row(sales, sale_id) = {} THEN abort(404)
                       ELSE render_template("sale_edit.html", <<>>,
                                [kind |-> "row",
                                 row |-> CHOOSE r \in get_row(sales, sale_id) : TRUE])
            /\ UNCHANGED <<sales, expenses, session>>
    /\ frame

edit_sale_POST(sale_id, form) ==
    /\ req' = request("edit_sale", "POST", sale_id, form)
    /\ IF ~login_required_simple THEN to_login
       ELSE IF get_row(sales, sale_id) = {}
       THEN /\ resp' = abort(404)
            /\ UNCHANGED <<sales, expenses, session>>
       ELSE LET sale == CHOOSE r \in get_row(sales, sale_id) : TRUE
                r == edit_sale_post(sales, sale, form)
            IN  /\ sales' = r.sales
                /\ resp' = IF r.ok THEN redirect("sales", r.flash)
                           ELSE render_template("sale_edit.html", r.flash,
                                    [kind |-> "row", row |-> sale])
                /\ UNCHANGED <<expenses, session>>
    /\ frame

delete_sale(sale_id) ==
    /\ req' = request("delete_sale", "POST", sale_id, NoForm)
    /\ IF ~login_required_simple THEN to_login
       ELSE IF get_row(sales, sale_id) = {}
       THEN /\ resp' = abort(404)
            /\ UNCHANGED <<sales, expenses, session>>
       ELSE /\ sales' = sales \ get_row(sales, sale_id)
            /\ resp' = redirect("sales", <<<<"success", "Sale deleted.", "">>>>)
            /\ UNCHANGED <<expenses, session>>
    /\ frame

(***************************************************************************)
(* POST /sales served by two workers at once.  Each worker has its own     *)
(* database session: what its lookup returned stays with it until it       *)
(* commits, whatever the other worker commits in between.                  *)
(***************************************************************************)
Workers == {"w1", "w2"}

Idle == [pc |-> "idle"]

\* POST /sales from the lookup's result to the end of the try block, run on
\* the table S as it is when the session flushes.  existing is what the
\* lookup returned.  An UPDATE carries the attributes whose new value
\* differs from the loaded one and names the row by its primary key; it
\* fails when no row has that key.  An INSERT fails on the UNIQUE index.
sales_commit(S, form, existing) ==
    LET d == parse_date(form.sale_date)
        ts == float(form.total_sales)
        dp == float(form.daily_profit)
        first == CHOOSE r \in existing : \A q \in existing : r.id <= q.id
        cur == CHOOSE r \in get_row(S, first.id) : TRUE
        dirty == ts # first.total_sales \/ dp # first.daily_profit
        updated == [cur EXCEPT
                      !.total_sales = IF ts # first.total_sales THEN ts ELSE @,
                      !.daily_profit = IF dp # first.daily_profit THEN dp ELSE @]
        inserted == [id |-> next_id(S), sale_date |-> d,
                     total_sales |-> ts, daily_profit |-> dp]
        said == IF existing # {} THEN <<"info", "Updated sale", "">>
                ELSE <<"success", "Added sale", "">>
        failed(e) == [sales |-> S,
                      flash |-> <<said, <<"error", "Could not save sale", e>>>>]
    IN  IF existing # {}
        THEN IF ~dirty THEN [sales |-> S, flash |-> <<said>>]
             ELSE IF get_row(S, first.id) = {} THEN failed("StaleDataError")
             ELSE [sales |-> (S \ {cur}) \cup {updated}, flash |-> <<said>>]
        ELSE IF ~unique_sale_date(S \cup {inserted}) THEN failed("IntegrityError")
        ELSE [sales |-> S \cup {inserted}, flash |-> <<said>>]

\* worker w takes a POST /sales and runs it up to and including the lookup;
\* a request that is turned away or whose form does not parse ends here
sales_POST_lookup(w, form) ==
    /\ inflight[w] = Idle
    /\ IF ~login_required_simple
       THEN /\ req' = request("sales", "POST", 0, form)
            /\ to_login
            /\ UNCHANGED inflight
       ELSE IF sale_form_error(form) # ""
       THEN /\ req' = request("sales", "POST", 0, form)
            /\ resp' = redirect("sales",
                   <<<<"error", "Could not save sale", sale_form_error(form)>>>>)
            /\ UNCHANGED <<sales, expenses, session, inflight>>
       ELSE /\ inflight' = [inflight EXCEPT ![w] =
                   [pc |-> "looked_up", form |-> form,
                    existing |-> existing_sale(sales, parse_date(form.sale_date))]]
            /\ UNCHANGED <<sales, expenses, session, req, resp>>
    /\ UNCHANGED <<today, DATA_DIR_env, fs_other>>

\* worker w runs the rest of its handler: the assignment or the add, the
\* flash, the commit or the rollback, and the redirect
sales_POST_commit(w) ==
    /\ inflight[w] # Idle
    /\ LET r == sales_commit(sales, inflight[w].form, inflight[w].existing)
       IN  /\ Cardinality(r.sales) <= MaxSales
           /\ ids_of(r.sales) \subseteq 1..MaxId
           /\ sales' = r.sales
           /\ req' = request("sales", "POST", 0, inflight[w].form)
           /\ resp' = redirect("sales", r.flash)
    /\ inflight' = [inflight EXCEPT ![w] = Idle]
    /\ UNCHANGED <<expenses, session>>
    /\ UNCHANGED <<today, DATA_DIR_env, fs_other>>

(***************************************************************************)
(* Expense routes.                                                         *)
(***************************************************************************)
expenses_GET ==
    /\ req' = request("expenses", "GET", 0, NoForm)
    /\ IF ~login_required_simple THEN to_login
       ELSE /\ resp' = render_template("expenses.html", <<>>,
                   [kind |-> "rows",
                    rows |-> limit(reversed(expenses_by_date_asc(expenses)),
                                   EXPENSES_LIMIT)])
            /\ UNCHANGED <<sales, expenses, session>>
    /\ frame

expenses_POST(form) ==
    /\ req' = request("expenses", "POST", 0, form)
    /\ IF ~login_required_simple THEN to_login
       ELSE LET r == expenses_post(expenses, form)
            IN  /\ Cardinality(r.expenses) <= MaxExpenses
                /\ ids_of(r.expenses) \subseteq 1..MaxId
                /\ expenses' = r.expenses
                /\ resp' = redirect("expenses", r.flash)
                /\ UNCHANGED <<sales, session>>
    /\ frame

edit_expense_GET(expense_id) ==
    /\ req' = request("edit_expense", "GET", expense_id, NoForm)
    /\ IF ~login_required_simple THEN to_login
       ELSE /\ resp' = IF get_row(expenses, expense_id) = {} THEN abort(404)
                       ELSE render_template("expense_edit.html", <<>>,
                                [kind |-> "row",
                                 row |-> CHOOSE r \in get_row(expenses, expense_id) : TRUE])
            /\ UNCHANGED <<sales, expenses, session>>
    /\ frame

edit_expense_POST(expense_id, form) ==
    /\ req' = request("edit_expense", "POST", expense_id, form)
    /\ IF ~login_required_simple THEN to_login
       ELSE IF get_row(expenses, expense_id) = {}
       THEN /\ resp' = abort(404)
            /\ UNCHANGED <<sales, expenses, session>>
       ELSE LET exp == CHOOSE r \in get_row(expenses, expense_id) : TRUE
                r == edit_expense_post(expenses, exp, form)
            IN  /\ expenses' = r.expenses
                /\ resp' = IF r.ok THEN redirect("expenses", r.flash)
                           ELSE render_template("expense_edit.html", r.flash,
                                    [kind |-> "row", row |-> exp])
                /\ UNCHANGED <<sales, session>>
    /\ frame

delete_expense(expense_id) ==
    /\ req' = request("delete_expense", "POST", expense_id, NoForm)
    /\ IF ~login_required_simple THEN to_login
       ELSE IF get_row(expenses, expense_id) = {}
       THEN /\ resp' = abort(404)
            /\ UNCHANGED <<sales, expenses, session>>
       ELSE /\ expenses' = expenses \ get_row(expenses, expense_id)
            /\ resp' = redirect("expenses", <<<<"success", "Expense deleted.", "">>>>)
            /\ UNCHANGED <<sales, session>>
    /\ frame

(***************************************************************************)
(* Summary, exports, backup.                                               *)
(***************************************************************************)
\* SUM over a set of <<id, value>> pairs
RECURSIVE sum_pairs(_)
sum_pairs(P) ==
    IF P = {} THEN 0
    ELSE LET p == CHOOSE x \in P : TRUE IN p[2] + sum_pairs(P \ {p})

\* coalesce(sum(column), 0.0): SUM of no row is NULL, which coalesce makes 0
coalesce_sum(P) == IF P = {} THEN 0 ELSE sum_pairs(P)

\* the range is cut one day short at its end
aggregate_open_end(S, E, start, end) ==
    LET in(d) == between(d, start, end) /\ d # end
    IN  [total_sales |->
            coalesce_sum({<<r.id, r.total_sales>> : r \in {q \in S : in(q.sale_date)}}),
         total_profit |->
            coalesce_sum({<<r.id, r.daily_profit>> : r \in {q \in S : in(q.sale_date)}}),
         total_expenses |->
            coalesce_sum({<<r.id, r.amount>> : r \in {q \in E : in(q.expense_date)}})]

\* the three aggregate queries of summary (the same three are repeated in
\* export_summary_csv and monthly_close_pdf)
aggregate(S, E, start, end) ==
    [total_sales |->
        coalesce_sum({<<r.id, r.total_sales>> :
                        r \in {q \in S : between(q.sale_date, start, end)}}),
     total_profit |->
        coalesce_sum({<<r.id, r.daily_profit>> :
                        r \in {q \in S : between(q.sale_date, start, end)}}),
     total_expenses |->
        coalesce_sum({<<r.id, r.amount>> :
                        r \in {q \in E : between(q.expense_date, start, end)}})]

\* the two row listings of summary (repeated in monthly_close_pdf)
sales_rows_in(S, start, end) ==
    sales_by_date_asc({q \in S : between(q.sale_date, start, end)})

expense_rows_in(E, start, end) ==
    expenses_by_date_asc({q \in E : between(q.expense_date, start, end)})

\* request.args.get("month", default_month)
month_arg(args, default_month) == IF args.present THEN args.tok ELSE default_month

\* f"{x:.2f}" of a whole number: sign, integer digits, two fraction digits
fmt2(x) == [neg |-> x < 0, whole |-> IF x < 0 THEN -x ELSE x, frac |-> <<0, 0>>]

\* date.isoformat(): the fields of "YYYY-MM-DD"
isoformat(d) == <<N(d[1]), N(d[2]), N(d[3])>>

\* DailySale.day_name: strftime("%A")
day_name(d) ==
    LET t == <<0, 3, 2, 5, 0, 3, 5, 1, 4, 6, 2, 4>>
        y == IF d[2] < 3 THEN d[1] - 1 ELSE d[1]
        w == (y + (y \div 4) - (y \div 100) + (y \div 400) + t[d[2]] + d[3]) % 7
    IN  <<"Sunday", "Monday", "Tuesday", "Wednesday", "Thursday", "Friday",
          "Saturday">>[w + 1]

\* [f(s[i]) : i], for the row lists
sale_csv_rows(rows) ==
    [i \in 1..Len(rows) |->
        <<isoformat(rows[i].sale_date), day_name(rows[i].sale_date),
          fmt2(rows[i].total_sales), fmt2(rows[i].daily_profit)>>]

expense_csv_rows(rows) ==
    [i \in 1..Len(rows) |->
        <<isoformat(rows[i].expense_date), rows[i].description,
          fmt2(rows[i].amount)>>]

summary(args) ==
    /\ req' = request("summary", "GET", 0, args)
    /\ IF ~login_required_simple THEN to_login
       ELSE LET default_month == strftime_Y_m(today)
                asked == month_arg(args, default_month)
                ok == month_bounds_ok(asked)
                month == IF ok THEN asked ELSE default_month
                b == month_bounds(month)
                a == aggregate(sales, expenses, b.start, b.end)
            IN  /\ resp' = render_template("summary.html",
                      IF ok THEN <<>>
                      ELSE <<<<"info",
                               "Invalid month selected; showing current month instead.",
                               "">>>>,
                      [kind |-> "summary", month |-> month,
                       start |-> b.start, end |-> b.end,
                       total_sales |-> a.total_sales,
                       total_profit |-> a.total_profit,
                       total_expenses |-> a.total_expenses,
                       net_profit |-> a.total_profit - a.total_expenses,
                       sales_rows |-> sales_rows_in(sales, b.start, b.end),
                       expense_rows |-> expense_rows_in(expenses, b.start, b.end)])
                /\ UNCHANGED <<sales, expenses, session>>
    /\ frame

export_sales_csv ==
    /\ req' = request("export_sales_csv", "GET", 0, NoForm)
    /\ IF ~login_required_simple THEN to_login
       ELSE /\ resp' = render_template("daily_sales.csv", <<>>,
                   [kind |-> "csv",
                    header |-> <<"date", "day", "total_sales", "daily_profit">>,
                    rows |-> sale_csv_rows(sales_by_date_asc(sales))])
            /\ UNCHANGED <<sales, expenses, session>>
    /\ frame

export_expenses_csv ==
    /\ req' = request("export_expenses_csv", "GET", 0, NoForm)
    /\ IF ~login_required_simple THEN to_login
       ELSE /\ resp' = render_template("expenses.csv", <<>>,
                   [kind |-> "csv",
                    header |-> <<"date", "description", "amount">>,
                    rows |-> expense_csv_rows(expenses_by_date_asc(expenses))])
            /\ UNCHANGED <<sales, expenses, session>>
    /\ frame

export_summary_csv(args) ==
    /\ req' = request("export_summary_csv", "GET", 0, args)
    /\ IF ~login_required_simple THEN to_login
       ELSE LET default_month == strftime_Y_m(today)
                asked == month_arg(args, default_month)
                month == IF month_bounds_ok(asked) THEN asked ELSE default_month
                b == month_bounds(month)
                a == aggregate(sales, expenses, b.start, b.end)
            IN  /\ resp' = render_template("summary.csv", <<>>,
                      [kind |-> "csv", month |-> month,
                       start |-> b.start, end |-> b.end,
                       header |-> <<"month", "total_sales", "total_expenses",
                                    "total_daily_profit", "net_profit">>,
                       rows |-> << <<month, fmt2(a.total_sales),
                                     fmt2(a.total_expenses), fmt2(a.total_profit),
                                     fmt2(a.total_profit - a.total_expenses)>> >>])
                /\ UNCHANGED <<sales, expenses, session>>
    /\ frame

\* paths are the sequences of their components
BASE_DIR == <<"app">>

path_join(dir, name) == Append(dir, name)

\* os.environ.get("DATA_DIR", os.path.join(BASE_DIR, "data"))
DATA_DIR ==
    IF DATA_DIR_env.set THEN DATA_DIR_env.value ELSE path_join(BASE_DIR, "data")

\* the file SQLALCHEMY_DATABASE_URI names
DB_PATH == path_join(DATA_DIR, "barbook.db")

\* the database file of the releases that kept it next to the code
LegacyPath == path_join(BASE_DIR, "barbook.db")
LegacyContent == [sales |-> {}, expenses |-> {}]

\* os.path.exists: the store's file exists since create_all ran at start
path_exists(path) == path = DB_PATH \/ path \in fs_other

file_content(path) ==
    IF path = DB_PATH THEN [sales |-> sales, expenses |-> expenses]
    ELSE LegacyContent

backup_db ==
    /\ req' = request("backup_db", "GET", 0, NoForm)
    /\ IF ~login_required_simple THEN to_login
       ELSE LET db_path == path_join(BASE_DIR, "barbook.db")
            IN  /\ resp' = IF ~path_exists(db_path) THEN abort(404)
                           ELSE render_template("barbook_backup.db", <<>>,
                                    [kind |-> "file", path |-> db_path,
                                     content |-> file_content(db_path)])
                /\ UNCHANGED <<sales, expenses, session>>
    /\ frame

monthly_close_pdf(args) ==
    /\ req' = request("monthly_close_pdf", "GET", 0, args)
    /\ IF ~login_required_simple THEN to_login
       ELSE LET default_month == strftime_Y_m(today)
                asked == month_arg(args, default_month)
                month == IF month_bounds_ok(asked) THEN asked ELSE default_month
                b == month_bounds(month)
                a == aggregate(sales, expenses, b.start, b.end)
                sales_data == sale_csv_rows(sales_rows_in(sales, b.start, b.end))
                exp_data == expense_csv_rows(expense_rows_in(expenses, b.start, b.end))
            IN  /\ resp' = render_template("monthly_close.pdf", <<>>,
                      [kind |-> "pdf", month |-> month,
                       start |-> b.start, end |-> b.end,
                       period |-> <<isoformat(b.start), isoformat(b.end)>>,
                       summary_data |->
                          << <<"Total Sales", fmt2(a.total_sales)>>,
                             <<"Total Expenses", fmt2(a.total_expenses)>>,
                             <<"Total Daily Profit", fmt2(a.total_profit)>>,
                             <<"Net Profit", fmt2(a.total_profit - a.total_expenses)>> >>,
                       sales_data |->
                          IF sales_data = <<>>
                          THEN << <<"-", "-", fmt2(0), fmt2(0)>> >>
                          ELSE sales_data,
                       exp_data |->
                          IF exp_data = <<>>
                          THEN << <<"-", "-", fmt2(0)>> >>
                          ELSE exp_data])
                /\ UNCHANGED <<sales, expenses, session>>
    /\ frame

(***************************************************************************)
(* What the clients send.                                                  *)
(***************************************************************************)
Feb1 == <<N(2024), N(2), N(1)>>
Feb29 == <<N(2024), N(2), N(29)>>
Mar1 == <<N(2024), N(3), N(1)>>

\* not a date (2023 is no leap year), not a number, a field short
BadDateTexts == { <<N(2023), N(2), N(29)>>, <<N(2024), X, N(1)>>, <<N(2024), N(2)>> }

\* the identifiers a client may name: those in use and one that never is
Ids == 1..(MaxId + 1)

sale_form(d, ts, dp) == [sale_date |-> d, total_sales |-> ts, daily_profit |-> dp]

expense_form(d, desc, amt) ==
    [expense_date |-> d, description |-> desc, amount |-> amt]

\* one form of each kind: accepted (zero and positive amounts) and rejected
SaleForms ==
    { sale_form(Feb29, N(0), N(0)), sale_form(Mar1, N(5), N(2)),
      sale_form(Feb29, N(-1), N(2)), sale_form(Mar1, N(5), N(-1)),
      sale_form(Feb29, X, N(2)) }

ExpenseForms ==
    { expense_form(Feb29, <<" ", "r", " ">>, N(0)), expense_form(Mar1, <<"r">>, N(4)),
      expense_form(Mar1, <<"r">>, N(-1)), expense_form(Mar1, <<" ">>, N(4)) }

\* every combination of two dates and two values of each amount, a third
\* date, and the rejected forms
\* forms that name one date with different amounts, another date, and a
\* refused amount
SaleFormsRace ==
    { sale_form(Feb29, N(ts), N(2)) : ts \in {0, 5} }
    \cup { sale_form(Mar1, N(5), N(2)), sale_form(Feb29, N(-1), N(2)) }

SaleFormsWide ==
    { sale_form(d, N(ts), N(dp)) : d \in {Feb29, Mar1}, ts \in {0, 5}, dp \in {0, 2} }
    \cup { sale_form(Feb1, N(5), N(2)) }
    \cup { sale_form(d, N(5), N(2)) : d \in BadDateTexts }
    \cup { sale_form(Feb29, a[1], a[2]) :
            a \in { <<X, N(2)>>, <<N(5), X>>, <<N(-1), N(2)>>, <<N(5), N(-1)>> } }

ExpenseFormsWide ==
    { expense_form(d, desc, N(a)) :
        d \in {Feb29, Mar1}, desc \in { <<" ", "r", " ">>, <<"r">> }, a \in {0, 4} }
    \cup { expense_form(d, <<"r">>, N(4)) : d \in BadDateTexts }
    \cup { expense_form(Mar1, t[1], t[2]) :
            t \in { << <<>>, N(4) >>, << <<" ">>, N(0) >>, << <<"r">>, X >>,
                    << <<"r">>, N(-1) >> } }

\* accepted forms with amounts that tell the sums apart, in and out of February
SaleFormsValid ==
    { sale_form(Feb1, N(5), N(2)), sale_form(Feb29, N(7), N(3)),
      sale_form(Mar1, N(1), N(1)) }

ExpenseFormsValid ==
    { expense_form(Feb29, <<"r">>, N(4)), expense_form(Feb29, <<"t">>, N(1)),
      expense_form(Mar1, <<"r">>, N(2)) }

month_args(toks) ==
    { [present |-> FALSE, tok |-> <<>>] } \cup { [present |-> TRUE, tok |-> t] : t \in toks }

MonthArgs == month_args({ <<N(2024), N(3)>>, <<N(2024), N(13)>>, <<N(2024), X>> })

MonthArgsWide ==
    month_args({ <<N(2024), N(2)>>, <<N(2024), N(3)>>, <<N(2023), N(2)>>,
                 <<N(2024), N(13)>>, <<N(0), N(1)>>, <<N(10000), N(1)>>,
                 <<N(2024), X>>, <<N(2024)>>, <<N(2024), N(2), N(1)>> })

Logins ==
    { [username |-> l[1], password |-> l[2], next |-> l[3]] :
        l \in { << <<"a">>, <<"p">>, "" >>, << <<" ", "a", " ">>, <<"p">>, "sales" >>,
                << <<"a">>, <<" ", "p">>, "" >>, << <<"b">>, <<"p">>, "" >>,
                << <<"a">>, <<"a">>, "" >>, << <<>>, <<>>, "sales" >> } }

\* the settings of the DATA_DIR environment variable
EnvSettings ==
    { [set |-> FALSE, value |-> <<>>],
      [set |-> TRUE, value |-> BASE_DIR],
      [set |-> TRUE, value |-> <<"srv", "data">>] }

(***************************************************************************)
(* The system.                                                             *)
(***************************************************************************)
Todays == { <<2024, 2, 15>> }

\* after the module is loaded: empty tables, nobody logged in
Started ==
    /\ sales = {}
    /\ expenses = {}
    /\ session = [is_admin |-> FALSE]
    /\ req = request("", "", 0, NoForm)
    /\ resp = abort(0)
    /\ today \in Todays
    /\ inflight = [w \in Workers |-> Idle]

\* a fresh installation with DATA_DIR unset
Init ==
    /\ Started
    /\ DATA_DIR_env = [set |-> FALSE, value |-> <<>>]
    /\ fs_other = {}

\* every route
Next ==
    \/ login_GET
    \/ \E l \in Logins : login_POST(l.username, l.password, l.next)
    \/ logout
    \/ home
    \/ sales_GET
    \/ \E f \in SaleForms : sales_POST(f)
    \/ \E i \in Ids : edit_sale_GET(i)
    \/ \E i \in Ids, f \in SaleForms : edit_sale_POST(i, f)
    \/ \E i \in Ids : delete_sale(i)
    \/ expenses_GET
    \/ \E f \in ExpenseForms : expenses_POST(f)
    \/ \E i \in Ids : edit_expense_GET(i)
    \/ \E i \in Ids, f \in ExpenseForms : edit_expense_POST(i, f)
    \/ \E i \in Ids : delete_expense(i)
    \/ \E a \in MonthArgs : summary(a)
    \/ export_sales_csv
    \/ export_expenses_csv
    \/ \E a \in MonthArgs : export_summary_csv(a)
    \/ backup_db
    \/ \E a \in MonthArgs : monthly_close_pdf(a)

Spec == Init /\ [][Next]_vars

\* the sale record editor, with the wide forms
NextSales ==
    \/ \E l \in Logins : login_POST(l.username, l.password, l.next)
    \/ logout
    \/ sales_GET
    \/ \E f \in SaleFormsWide : sales_POST(f)
    \/ \E i \in Ids : edit_sale_GET(i)
    \/ \E i \in Ids, f \in SaleFormsWide : edit_sale_POST(i, f)
    \/ \E i \in Ids : delete_sale(i)

SpecSales == Init /\ [][NextSales]_vars

\* the expense record editor, with the wide forms
NextExpenses ==
    \/ \E l \in Logins : login_POST(l.username, l.password, l.next)
    \/ logout
    \/ expenses_GET
    \/ \E f \in ExpenseFormsWide : expenses_POST(f)
    \/ \E i \in Ids : edit_expense_GET(i)
    \/ \E i \in Ids, f \in ExpenseFormsWide : edit_expense_POST(i, f)
    \/ \E i \in Ids : delete_expense(i)

SpecExpenses == Init /\ [][NextExpenses]_vars

\* the monthly reports over tables filled by accepted forms
NextReports ==
    \/ \E l \in Logins : login_POST(l.username, l.password, l.next)
    \/ \E f \in SaleFormsValid : sales_POST(f)
    \/ \E f \in ExpenseFormsValid : expenses_POST(f)
    \/ \E a \in MonthArgsWide : summary(a)
    \/ \E a \in MonthArgsWide : export_summary_csv(a)
    \/ \E a \in MonthArgsWide : monthly_close_pdf(a)

SpecReports == Init /\ [][NextReports]_vars

\* an installation under each setting of DATA_DIR, with or without the
\* database file of an earlier release
InitDeploy ==
    /\ Started
    /\ DATA_DIR_env \in EnvSettings
    /\ fs_other \in SUBSET ({LegacyPath} \ {DB_PATH})

NextDeploy ==
    \/ \E l \in Logins : login_POST(l.username, l.password, l.next)
    \/ logout
    \/ \E f \in SaleForms : sales_POST(f)
    \/ \E f \in ExpenseForms : expenses_POST(f)
    \/ \E i \in Ids : delete_sale(i)
    \/ \E i \in Ids : delete_expense(i)
    \/ backup_db

SpecDeploy == InitDeploy /\ [][NextDeploy]_vars

\* POST /sales in two steps on two workers, next to the one-step delete
NextRace ==
    \/ \E l \in Logins : login_POST(l.username, l.password, l.next)
    \/ \E w \in Workers, f \in SaleFormsRace : sales_POST_lookup(w, f)
    \/ \E w \in Workers : sales_POST_commit(w)
    \/ \E i \in Ids : delete_sale(i)

SpecRace == Init /\ [][NextRace]_vars

(***************************************************************************)
(* Properties.                                                             *)
(***************************************************************************)
\* the request of a step was let through by the session gate
admitted == session.is_admin

\* a form whose date is a calendar date and whose two amounts are numbers >= 0
good_sale_form(form) ==
    /\ parse_date_ok(form.sale_date)
    /\ form.total_sales.num /\ form.total_sales.v >= 0
    /\ form.daily_profit.num /\ form.daily_profit.v >= 0

sale_of_form(id, form) ==
    [id |-> id, sale_date |-> parse_date(form.sale_date),
     total_sales |-> form.total_sales.v, daily_profit |-> form.daily_profit.v]

\* C1: whatever sequence of sale posts, edits and deletes was served,
\* accepted or refused, no two sale records have the same sale_date.
C1_OneSalePerDate ==
    \A r1 \in sales : \A r2 \in sales : r1.sale_date = r2.sale_date => r1 = r2

\* C1: two records are stored and an edit that would have given both the
\* same date has just been refused.
C1_Witness ==
    /\ Cardinality(sales) = 2
    /\ req.route = "edit_sale" /\ req.method = "POST"
    /\ resp.status = 200
    /\ good_sale_form(req.form)
    /\ \E r \in sales : r.id # req.id /\ r.sale_date = parse_date(req.form.sale_date)

\* what C2 asks of one step, from the state before to the state after
C2_Step ==
    (/\ admitted
     /\ req'.route = "sales" /\ req'.method = "POST"
     /\ good_sale_form(req'.form)
     /\ \E r \in sales : r.sale_date = parse_date(req'.form.sale_date))
    => LET d == parse_date(req'.form.sale_date)
           old == CHOOSE r \in sales : r.sale_date = d
       IN  /\ sales' = (sales \ {old}) \cup {sale_of_form(old.id, req'.form)}
           /\ Cardinality({r \in sales' : r.sale_date = d}) = 1
           /\ Cardinality(sales') = Cardinality(sales)
           /\ expenses' = expenses

\* C2: a sale post with a valid date d and non-negative amounts, served when
\* a record for d is stored (as it is after a first post for d), rewrites
\* that record, keeping its identifier, to the posted amounts; no record is
\* added and the records of the other dates and the expenses stay as they were.
C2_PostTwiceUpdates == [][C2_Step]_vars

\* C2: a second post for a date has just replaced the amounts of the first,
\* next to a record of another date.
C2_Witness ==
    /\ req.route = "sales" /\ req.method = "POST"
    /\ resp.flash = <<<<"info", "Updated sale", "">>>>
    /\ Cardinality(sales) = 2
    /\ \E r \in sales :
          /\ r.sale_date = parse_date(req.form.sale_date)
          /\ r.total_sales = 0 /\ r.daily_profit = 2

\* what C3 asks of one step, from the state before to the state after
C3_Step ==
    (/\ admitted
     /\ req'.route = "edit_sale" /\ req'.method = "POST"
     /\ \E a \in sales : a.id = req'.id
     /\ parse_date_ok(req'.form.sale_date))
    => LET d == parse_date(req'.form.sale_date)
           A == CHOOSE a \in sales : a.id = req'.id
       IN  /\ (\E B \in sales : B.id # A.id /\ B.sale_date = d)
                => /\ sales' = sales
                   /\ expenses' = expenses
                   /\ resp'.status = 200
                   /\ resp'.location = "sale_edit.html"
                   /\ Len(resp'.flash) = 1
                   /\ resp'.flash[1][1] = "error"
                   /\ good_sale_form(req'.form) =>
                        resp'.flash[1][3] =
                            "Another sale entry already exists for that date."
           /\ (A.sale_date = d /\ good_sale_form(req'.form))
                => /\ sales' = (sales \ {A}) \cup {sale_of_form(A.id, req'.form)}
                   /\ resp' = redirect("sales", <<<<"success", "Sale updated.", "">>>>)

\* C3: an edit of record A to a date that another record B holds changes no
\* record and answers the edit page with an error, which is the conflict
\* error when the amounts are acceptable; an edit of A to A's own date with
\* acceptable amounts is accepted and rewrites A alone.
C3_EditConflictRefused == [][C3_Step]_vars

\* C3: the conflict error has just been given, with both records stored.
C3_Witness ==
    /\ req.route = "edit_sale" /\ req.method = "POST"
    /\ Cardinality(sales) = 2
    /\ resp.flash = <<<<"error", "Could not update sale",
                       "Another sale entry already exists for that date.">>>>

\* a monetary field of the form is a negative number
negative_sale_form(form) ==
    \/ form.total_sales.num /\ form.total_sales.v < 0
    \/ form.daily_profit.num /\ form.daily_profit.v < 0

negative_expense_form(form) == form.amount.num /\ form.amount.v < 0

\* a form that is acceptable but for the sign of its amounts
wellformed_sale_form(form) ==
    parse_date_ok(form.sale_date) /\ form.total_sales.num /\ form.daily_profit.num

wellformed_expense_form(form) ==
    /\ parse_date_ok(form.expense_date) /\ form.amount.num
    /\ \E i \in 1..Len(form.description) : form.description[i] # " "

\* the answer carries one message, an error, and its detail is in details
refused_with(r, details) ==
    /\ Len(r.flash) = 1
    /\ r.flash[1][1] = "error"
    /\ r.flash[1][3] \in details

\* the answer is a redirect that carries no error
accepted(r) ==
    /\ r.status = 302
    /\ \A i \in 1..Len(r.flash) : r.flash[i][1] # "error"

C4_SaleStep ==
    (/\ admitted
     /\ req'.method = "POST" /\ req'.route \in {"sales", "edit_sale"}
     /\ req'.route = "edit_sale" => req'.id \in ids_of(sales))
    => LET form == req'.form
           d == parse_date(form.sale_date)
           free == \/ req'.route = "sales"
                   \/ \A r \in sales : r.sale_date = d => r.id = req'.id
       IN  /\ negative_sale_form(form)
                => /\ UNCHANGED <<sales, expenses>>
                   /\ Len(resp'.flash) = 1 /\ resp'.flash[1][1] = "error"
                   /\ wellformed_sale_form(form)
                        => refused_with(resp', {"Values must be non-negative."})
           /\ (/\ wellformed_sale_form(form) /\ free
               /\ form.total_sales.v = 0 /\ form.daily_profit.v = 0)
                => /\ accepted(resp')
                   /\ \E r \in sales' :
                        /\ r.sale_date = d
                        /\ r.total_sales = 0 /\ r.daily_profit = 0
                        /\ req'.route = "edit_sale" => r.id = req'.id

C4_ExpenseStep ==
    (/\ admitted
     /\ req'.method = "POST" /\ req'.route \in {"expenses", "edit_expense"}
     /\ req'.route = "edit_expense" => req'.id \in ids_of(expenses))
    => LET form == req'.form
       IN  /\ negative_expense_form(form)
                => /\ UNCHANGED <<sales, expenses>>
                   /\ Len(resp'.flash) = 1 /\ resp'.flash[1][1] = "error"
                   /\ wellformed_expense_form(form)
                        => refused_with(resp', {"Amount must be non-negative."})
           /\ (wellformed_expense_form(form) /\ form.amount.v = 0)
                => /\ accepted(resp')
                   /\ \E r \in expenses' :
                        /\ r.expense_date = parse_date(form.expense_date)
                        /\ r.amount = 0
                        /\ r \notin expenses \/ req'.route = "edit_expense"
                        /\ req'.route = "edit_expense" => r.id = req'.id

\* what C4 asks of one step, from the state before to the state after
C4_Step ==
    /\ C4_SaleStep
    /\ C4_ExpenseStep
    /\ \A r \in sales' : r.total_sales >= 0 /\ r.daily_profit >= 0
    /\ \A r \in expenses' : r.amount >= 0

\* C4: a sale post, sale edit, expense post or expense edit with a negative
\* amount changes no sale and no expense and answers with an error, the
\* non-negativity error when the form is otherwise acceptable; one with zero
\* amounts that is otherwise acceptable is accepted and its record stored;
\* and after every step every stored amount is >= 0.
C4_NegativeRefusedZeroAccepted == [][C4_Step]_vars

\* C4: a negative amount has just been refused in the edit of a stored
\* sale, and an expense of amount zero is stored.
C4_Witness ==
    /\ req.route = "edit_sale" /\ req.method = "POST"
    /\ req.id \in ids_of(sales)
    /\ negative_sale_form(req.form)
    /\ refused_with(resp, {"Values must be non-negative."})
    /\ \E e \in expenses : e.amount = 0

\* what C5 asks of one step, from the state before to the state after
C5_Step ==
    /\ (~session.is_admin /\ req'.route # "login")
         => /\ resp'.status = 302
            /\ resp'.location = "login"
            /\ resp'.body = NoBody
            /\ ~session'.is_admin
    /\ ~session.is_admin => UNCHANGED <<sales, expenses>>
    /\ (~session.is_admin /\ session'.is_admin)
         => /\ req'.route = "login" /\ req'.method = "POST"
            /\ strip(req'.form.username) = ADMIN_USERNAME
            /\ req'.form.password = ADMIN_PASSWORD

\* C5: a request to any route but /login served while the session flag is
\* unset is answered by a redirect to login with no content, and leaves the
\* sales, the expenses and the flag as they were; no request served with the
\* flag unset changes a record; and the flag goes from unset to set only in
\* a login post whose trimmed username and whose password are the
\* configured ones.
C5_SessionGate == [][C5_Step]_vars

\* C5: after a logout, the delete of a stored sale has just been turned away.
C5_Witness ==
    /\ ~session.is_admin
    /\ req.route = "delete_sale"
    /\ req.id \in ids_of(sales)
    /\ expenses # {}
    /\ resp.location = "login"

RECURSIVE seq_sum(_)
seq_sum(s) == IF s = <<>> THEN 0 ELSE Head(s) + seq_sum(Tail(s))

seq_range(s) == {s[i] : i \in 1..Len(s)}

\* what C6 asks of one step, from the state before to the state after
C6_Step ==
    (admitted /\ req'.route = "summary")
    => LET b == resp'.body
           in(d) == date_le(b.start, d) /\ date_le(d, b.end)
       IN  /\ resp'.status = 200
           /\ seq_range(b.sales_rows) = {r \in sales : in(r.sale_date)}
           /\ Len(b.sales_rows) = Cardinality(seq_range(b.sales_rows))
           /\ seq_range(b.expense_rows) = {r \in expenses : in(r.expense_date)}
           /\ Len(b.expense_rows) = Cardinality(seq_range(b.expense_rows))
           /\ b.total_sales =
                seq_sum([i \in 1..Len(b.sales_rows) |-> b.sales_rows[i].total_sales])
           /\ b.total_profit =
                seq_sum([i \in 1..Len(b.sales_rows) |-> b.sales_rows[i].daily_profit])
           /\ b.total_expenses =
                seq_sum([i \in 1..Len(b.expense_rows) |-> b.expense_rows[i].amount])
           /\ b.sales_rows = <<>> => b.total_sales = 0 /\ b.total_profit = 0
           /\ b.expense_rows = <<>> => b.total_expenses = 0
           /\ UNCHANGED <<sales, expenses>>

\* C6: in the summary of a range [start, end], the listed sale rows and
\* expense rows are the stored ones dated in the range, total_sales and
\* total_profit are the sums of total_sales and daily_profit over the listed
\* sale rows, total_expenses is the sum of amount over the listed expense
\* rows (0 when none is listed), and no record changes.
C6_AggregateIsSumOfRows == [][C6_Step]_vars

\* C6: a summary of February has just listed two sales, 5 and 7, and two
\* expenses, 4 and 1, one of each dated the last day of the range.
C6_Witness ==
    /\ req.route = "summary"
    /\ resp.status = 200
    /\ Len(resp.body.sales_rows) = 2
    /\ resp.body.total_sales = 12
    /\ Len(resp.body.expense_rows) = 2
    /\ resp.body.total_expenses = 5

\* the token is not two numbers, a year in 1..9999 and a month in 1..12
token_invalid(tok) ==
    \/ Len(tok) # 2
    \/ ~tok[1].num \/ ~tok[2].num
    \/ tok[1].v < 1 \/ tok[1].v > 9999
    \/ tok[2].v < 1 \/ tok[2].v > 12

\* C7: the summary view, the summary CSV and the monthly close PDF, when
\* served with a month token that is malformed or out of range, answer
\* with the range of the current month and with a notice to the user.
C7_FallbackWithNotice ==
    (/\ req.route \in {"summary", "export_summary_csv", "monthly_close_pdf"}
     /\ resp.status = 200
     /\ req.form.present /\ token_invalid(req.form.tok))
    => /\ resp.body.start = <<today[1], today[2], 1>>
       /\ resp.body.end[1] = today[1] /\ resp.body.end[2] = today[2]
       /\ \A d \in 1..31 : date_ok(today[1], today[2], d) => d <= resp.body.end[3]
       /\ resp.flash # <<>>

\* what C8 asks of one step, from the state before to the state after
C8_Step ==
    /\ (admitted /\ req'.route = "delete_sale")
         => /\ expenses' = expenses
            /\ IF req'.id \in ids_of(sales)
               THEN /\ sales' = {r \in sales : r.id # req'.id}
                    /\ Cardinality(sales') = Cardinality(sales) - 1
                    /\ accepted(resp')
               ELSE /\ sales' = sales
                    /\ resp'.status = 404
    /\ (admitted /\ req'.route = "delete_expense")
         => /\ sales' = sales
            /\ IF req'.id \in ids_of(expenses)
               THEN /\ expenses' = {r \in expenses : r.id # req'.id}
                    /\ Cardinality(expenses') = Cardinality(expenses) - 1
                    /\ accepted(resp')
               ELSE /\ expenses' = expenses
                    /\ resp'.status = 404

\* C8: the delete of an identifier that is not stored answers 404 and
\* changes no sale and no expense; the delete of a stored identifier removes
\* the record of that identifier and no other, and is answered by a redirect.
C8_Delete == [][C8_Step]_vars

\* C8: the delete of an expense that is not stored has just been answered
\* 404 while sales and another expense are stored.
C8_Witness ==
    /\ req.route = "delete_expense"
    /\ resp.status = 404
    /\ expenses # {} /\ sales # {}

\* what C9 asks of one step, from the state before to the state after
C9_Step ==
    (/\ admitted
     /\ req'.route = "expenses" /\ req'.method = "POST"
     /\ wellformed_expense_form(req'.form)
     /\ req'.form.amount.v >= 0)
    => /\ expenses \subseteq expenses'
       /\ Cardinality(expenses') = Cardinality(expenses) + 1
       /\ \A r \in expenses' \ expenses :
            /\ r.id \notin ids_of(expenses)
            /\ r.expense_date = parse_date(req'.form.expense_date)
            /\ r.amount = req'.form.amount.v
            /\ r.description # <<>>
            /\ r.description[1] # " " /\ r.description[Len(r.description)] # " "
       /\ sales' = sales
       /\ accepted(resp')

\* C9: an expense post with a calendar date, a description that is not
\* blank and an amount >= 0 adds one record, under an identifier no stored
\* expense has, holding the date, the trimmed description and the amount;
\* the expenses stored before, those of the same date too, and the sales
\* stay as they were.
C9_ExpensePostInserts == [][C9_Step]_vars

\* C9: an expense has just been added next to one of the same date.
C9_Witness ==
    /\ req.route = "expenses" /\ req.method = "POST"
    /\ accepted(resp)
    /\ Cardinality(expenses) = 2
    /\ \A r \in expenses : r.expense_date = parse_date(req.form.expense_date)

\* C10: a backup served to the logged-in user is the file of the store: it
\* is found, its path is the path the store is opened at, and its content
\* is the records stored.
C10_BackupServesStore ==
    (req.route = "backup_db" /\ resp.location # "login")
    => /\ resp.status = 200
       /\ resp.body.path = DB_PATH
       /\ resp.body.content = [sales |-> sales, expenses |-> expenses]

\* the step in which a worker finishes a POST /sales that adds a record for
\* a date: its lookup found no record for the date
C11_AddCommits(w) ==
    /\ inflight[w] # Idle
    /\ inflight'[w] = Idle
    /\ inflight[w].existing = {}

\* the date the worker's form names
C11_Date(w) == parse_date(inflight[w].form.sale_date)

\* the worker is the later of two requests that looked the date up before
\* either committed: the other request's record is in the table by now
C11_CommitsLast(w) ==
    /\ C11_AddCommits(w)
    /\ existing_sale(sales, C11_Date(w)) # {}

\* the table after the step holds exactly one record for the date, and it
\* carries the amounts of the worker's form
C11_CarriesValuesOf(w) ==
    /\ Cardinality(existing_sale(sales', C11_Date(w))) = 1
    /\ \A r \in existing_sale(sales', C11_Date(w)) :
          /\ r.total_sales = float(inflight[w].form.total_sales)
          /\ r.daily_profit = float(inflight[w].form.daily_profit)

\* C11 as stated: when two POST /sales requests for a date without a record
\* both look the date up before either commits, the record kept for the date
\* carries the values of the request that commits last, and there is exactly
\* one record for the date.
C11_LastCommitterWins ==
    [][\A w \in Workers : C11_CommitsLast(w) => C11_CarriesValuesOf(w)]_vars

\* what the race comes to, one step of a handler at a time
C11_Step ==
    \A w \in Workers :
        /\ (C11_AddCommits(w) /\ ~C11_CommitsLast(w)) =>
              /\ C11_CarriesValuesOf(w)
              /\ resp'.flash = <<<<"success", "Added sale", "">>>>
        /\ C11_CommitsLast(w) =>
              /\ sales' = sales
              /\ Cardinality(existing_sale(sales', C11_Date(w))) = 1
              /\ resp' = redirect("sales",
                     <<<<"success", "Added sale", "">>,
                       <<"error", "Could not save sale", "IntegrityError">>>>)

\* C11, amended: when two POST /sales requests for a date without a record
\* both look the date up before either commits, the request that commits
\* first adds its record; the commit of the later one is refused by the
\* unique index on the date and rolled back, its response carries the
\* "Could not save sale" message, and the table is left as it was: exactly
\* one record for the date, with the values of the first committer.
C11_FirstCommitterWins == [][C11_Step]_vars

\* the later request has been refused, and the record kept for its date does
\* not carry its amounts
C11_Witness ==
    /\ req.route = "sales" /\ req.method = "POST"
    /\ resp = redirect("sales",
           <<<<"success", "Added sale", "">>,
             <<"error", "Could not save sale", "IntegrityError">>>>)
    /\ Cardinality(existing_sale(sales, parse_date(req.form.sale_date))) = 1
    /\ \E r \in existing_sale(sales, parse_date(req.form.sale_date)) :
          r.total_sales # float(req.form.total_sales)
    /\ \A w \in Workers : inflight[w] = Idle

====
